---- MODULE Spec2Model ----
(***************************************************************************)
(* Model of the BackofficeCourse aggregate                                 *)
(* (src/Contexts/Backoffice/Courses/domain/BackofficeCourse.ts).           *)
(*                                                                         *)
(* The aggregate, its constructor, create, fromPrimitives and toPrimitives *)
(* are translated from the source.  The AggregateRoot base class and the   *)
(* three value objects are imported by the source but are not part of the  *)
(* available files; they are modelled from the written specification.      *)
(*                                                                         *)
(* Strings are sequences of one-character strings, so that trimming and    *)
(* length checks are computed rather than assumed.                         *)
(***************************************************************************)
EXTENDS Integers, Sequences, FiniteSets, TLC

VARIABLES
  courses,    \* the BackofficeCourse instances that exist, in construction order
  built,      \* history: for each instance, the primitives given at construction
  recorded,   \* history: for each instance, the number of recordEvent calls made on it
  pulled,     \* history: for each instance, every event returned by pullEvents so far
  last        \* the most recent call: operation, instance, result; for
              \* fromPrimitives also whether a value object rejects the record

vars == <<courses, built, recorded, pulled, last>>

(***************************************************************************)
(* Bounds                                                                  *)
(***************************************************************************)
\* instances constructed in one run
MaxCourses == 2

\* recordEvent calls made in one run, over all instances
MaxRecorded == 2

(***************************************************************************)
(* Raw input strings                                                       *)
(***************************************************************************)
RawIds == { <<>>, <<"c", "1">>, <<"c", "2">> }

RawNames == { <<>>, <<" ">>, <<"a", " ">>, <<"b">>, <<"a", "a", "a">> }

RawDurations == { <<>>, <<"4", "w">> }


(***************************************************************************)
(* Value objects (modelled from the specification, section 4.1)            *)
(***************************************************************************)
NameMaxLength == 2

ValidationError(field) == [error |-> "ValidationError", field |-> field]

IsValidationError(x) == "error" \in DOMAIN x

RECURSIVE TrimLeft(_)
TrimLeft(s) ==
  IF s = <<>> THEN <<>>
  ELSE IF Head(s) = " " THEN TrimLeft(Tail(s)) ELSE s

RECURSIVE TrimRight(_)
TrimRight(s) ==
  IF s = <<>> THEN <<>>
  ELSE IF s[Len(s)] = " " THEN TrimRight(SubSeq(s, 1, Len(s) - 1)) ELSE s

Trim(s) == TrimRight(TrimLeft(s))

NewBackofficeCourseId(raw) ==
  IF raw = <<>> THEN ValidationError("id") ELSE [value |-> raw]

NewBackofficeCourseName(raw) ==
  IF Trim(raw) = <<>> \/ Len(raw) > NameMaxLength
  THEN ValidationError("name")
  ELSE [value |-> raw]

NewBackofficeCourseDuration(raw) ==
  IF raw = <<>> THEN ValidationError("duration") ELSE [value |-> raw]

ValueObjectEquals(a, b) == a.value = b.value

\* Some value object constructor throws on the record's field.
Rejected(plainData) ==
  \/ IsValidationError(NewBackofficeCourseId(plainData.id))
  \/ IsValidationError(NewBackofficeCourseName(plainData.name))
  \/ IsValidationError(NewBackofficeCourseDuration(plainData.duration))

\* The plain records handed to fromPrimitives, well-formed or not.
PlainRecords == [id : RawIds, name : RawNames, duration : RawDurations]

\* The value objects a caller of create can hold: those a constructor returned.
CourseIds ==
  { v \in { NewBackofficeCourseId(s) : s \in RawIds } : ~IsValidationError(v) }

CourseNames ==
  { v \in { NewBackofficeCourseName(s) : s \in RawNames } : ~IsValidationError(v) }

CourseDurations ==
  { v \in { NewBackofficeCourseDuration(s) : s \in RawDurations } : ~IsValidationError(v) }

(***************************************************************************)
(* AggregateRoot base (modelled from the specification, section 4.2)       *)
(***************************************************************************)
AggregateRoot == [domainEvents |-> <<>>]

recordEvent(aggregate, event) ==
  [aggregate EXCEPT !.domainEvents = Append(@, event)]

pullEventsKeeping(aggregate) ==
  [returned |-> aggregate.domainEvents, self |-> aggregate]

pullEvents(aggregate) ==
  [returned |-> aggregate.domainEvents,
   self |-> [aggregate EXCEPT !.domainEvents = <<>>]]

SameIdentityStructural(a, b) ==
  /\ ValueObjectEquals(a.id, b.id)
  /\ ValueObjectEquals(a.name, b.name)
  /\ ValueObjectEquals(a.duration, b.duration)

SameIdentity(a, b) == ValueObjectEquals(a.id, b.id)

(***************************************************************************)
(* BackofficeCourse                                                        *)
(***************************************************************************)
NewBackofficeCourseSwapped(id, name, duration) ==
  [id |-> id, name |-> duration, duration |-> name,
   domainEvents |-> AggregateRoot.domainEvents]

\* constructor: super(); this.id = id; this.name = name; this.duration = duration
NewBackofficeCourse(id, name, duration) ==
  [id |-> id, name |-> name, duration |-> duration,
   domainEvents |-> AggregateRoot.domainEvents]

\* static create: builds the instance and returns it
create(id, name, duration) == NewBackofficeCourse(id, name, duration)

fromPrimitivesRecording(plainData) ==
  LET id == NewBackofficeCourseId(plainData.id)
      name == NewBackofficeCourseName(plainData.name)
      duration == NewBackofficeCourseDuration(plainData.duration)
  IN IF IsValidationError(id) THEN id
     ELSE IF IsValidationError(name) THEN name
     ELSE IF IsValidationError(duration) THEN duration
     ELSE recordEvent(NewBackofficeCourse(id, name, duration),
                      [eventName |-> "course.created", eventId |-> 0])

fromPrimitivesTrimming(plainData) ==
  LET id == NewBackofficeCourseId(plainData.id)
      name == NewBackofficeCourseName(plainData.name)
      duration == NewBackofficeCourseDuration(plainData.duration)
  IN IF IsValidationError(id) THEN id
     ELSE IF IsValidationError(name) THEN name
     ELSE IF IsValidationError(duration) THEN duration
     ELSE NewBackofficeCourse(id, [value |-> Trim(plainData.name)], duration)

fromPrimitivesUnchecked(plainData) ==
  LET id == NewBackofficeCourseId(plainData.id)
      duration == NewBackofficeCourseDuration(plainData.duration)
  IN IF IsValidationError(id) THEN id
     ELSE IF IsValidationError(duration) THEN duration
     ELSE NewBackofficeCourse(id, [value |-> plainData.name], duration)

\* static fromPrimitives: the three value objects are constructed in argument
\* order; the first constructor that throws ends the call.
fromPrimitives(plainData) ==
  LET id == NewBackofficeCourseId(plainData.id)
      name == NewBackofficeCourseName(plainData.name)
      duration == NewBackofficeCourseDuration(plainData.duration)
  IN IF IsValidationError(id) THEN id
     ELSE IF IsValidationError(name) THEN name
     ELSE IF IsValidationError(duration) THEN duration
     ELSE NewBackofficeCourse(id, name, duration)

toPrimitivesSwapped(course) ==
  [id |-> course.id.value,
   name |-> course.duration.value,
   duration |-> course.name.value]

toPrimitives(course) ==
  [id |-> course.id.value,
   name |-> course.name.value,
   duration |-> course.duration.value]

(***************************************************************************)
(* State machine                                                           *)
(***************************************************************************)
Instances == 1..Len(courses)

RECURSIVE Sum(_)
Sum(counts) == IF counts = <<>> THEN 0 ELSE Head(counts) + Sum(Tail(counts))

Init ==
  /\ courses = <<>>
  /\ built = <<>>
  /\ recorded = <<>>
  /\ pulled = <<>>
  /\ last = [op |-> "init", idx |-> 0, ret |-> <<>>]

Create(id, name, duration) ==
  /\ Len(courses) < MaxCourses
  /\ courses' = Append(courses, create(id, name, duration))
  /\ built' = Append(built, [id |-> id.value, name |-> name.value,
                             duration |-> duration.value])
  /\ recorded' = Append(recorded, 0)
  /\ pulled' = Append(pulled, <<>>)
  /\ last' = [op |-> "create", idx |-> Len(courses) + 1, ret |-> <<>>]

FromPrimitives(plainData) ==
  LET result == fromPrimitives(plainData)
  IN IF IsValidationError(result)
     THEN /\ last' = [op |-> "fromPrimitives", idx |-> 0, ret |-> <<result>>,
                      rejected |-> Rejected(plainData)]
          /\ UNCHANGED <<courses, built, recorded, pulled>>
     ELSE /\ Len(courses) < MaxCourses
          /\ courses' = Append(courses, result)
          /\ built' = Append(built, plainData)
          /\ recorded' = Append(recorded, 0)
          /\ pulled' = Append(pulled, <<>>)
          /\ last' = [op |-> "fromPrimitives", idx |-> Len(courses) + 1,
                      ret |-> <<>>, rejected |-> Rejected(plainData)]

ToPrimitivesDraining(i) ==
  /\ i \in Instances
  /\ last' = [op |-> "toPrimitives", idx |-> i,
              ret |-> <<toPrimitives(courses[i])>>]
  /\ courses' = [courses EXCEPT ![i] = pullEvents(@).self]
  /\ UNCHANGED <<built, recorded, pulled>>

ToPrimitives(i) ==
  /\ i \in Instances
  /\ last' = [op |-> "toPrimitives", idx |-> i,
              ret |-> <<toPrimitives(courses[i])>>]
  /\ UNCHANGED <<courses, built, recorded, pulled>>

\* The caller hands a new event, with an identifier of its own, to recordEvent.
RecordEvent(i) ==
  /\ i \in Instances
  /\ Sum(recorded) < MaxRecorded
  /\ LET event == [eventName |-> "course.event", eventId |-> recorded[i] + 1]
     IN courses' = [courses EXCEPT ![i] = recordEvent(@, event)]
  /\ recorded' = [recorded EXCEPT ![i] = @ + 1]
  /\ last' = [op |-> "recordEvent", idx |-> i, ret |-> <<>>]
  /\ UNCHANGED <<built, pulled>>

PullEventsShared(i) ==
  /\ i \in Instances
  /\ LET result == pullEvents(courses[i])
     IN /\ courses' = [j \in Instances |-> [courses[j] EXCEPT !.domainEvents = <<>>]]
        /\ pulled' = [pulled EXCEPT ![i] = @ \o result.returned]
        /\ last' = [op |-> "pullEvents", idx |-> i,
                    ret |-> <<result.returned>>]
  /\ UNCHANGED <<built, recorded>>

PullEvents(i) ==
  /\ i \in Instances
  /\ LET result == pullEvents(courses[i])
     IN /\ courses' = [courses EXCEPT ![i] = result.self]
        /\ pulled' = [pulled EXCEPT ![i] = @ \o result.returned]
        /\ last' = [op |-> "pullEvents", idx |-> i,
                    ret |-> <<result.returned>>]
  /\ UNCHANGED <<built, recorded>>

Next ==
  \/ \E id \in CourseIds, name \in CourseNames, duration \in CourseDurations :
       Create(id, name, duration)
  \/ \E plainData \in PlainRecords : FromPrimitives(plainData)
  \/ \E i \in 1..MaxCourses : ToPrimitives(i)
  \/ \E i \in 1..MaxCourses : RecordEvent(i)
  \/ \E i \in 1..MaxCourses : PullEvents(i)

Spec == Init /\ [][Next]_vars

\* Runs in which every aggregate is built by create.
NextCreated ==
  \/ \E id \in CourseIds, name \in CourseNames, duration \in CourseDurations :
       Create(id, name, duration)
  \/ \E i \in 1..MaxCourses : ToPrimitives(i)
  \/ \E i \in 1..MaxCourses : RecordEvent(i)
  \/ \E i \in 1..MaxCourses : PullEvents(i)

SpecCreated == Init /\ [][NextCreated]_vars

\* Runs in which every aggregate is rehydrated by fromPrimitives.
NextRehydrated ==
  \/ \E plainData \in PlainRecords : FromPrimitives(plainData)
  \/ \E i \in 1..MaxCourses : ToPrimitives(i)
  \/ \E i \in 1..MaxCourses : RecordEvent(i)
  \/ \E i \in 1..MaxCourses : PullEvents(i)

SpecRehydrated == Init /\ [][NextRehydrated]_vars

(***************************************************************************)
(* Properties                                                              *)
(***************************************************************************)
PrimitivesOf(course) ==
  [id |-> course.id.value, name |-> course.name.value,
   duration |-> course.duration.value]

EventsRecordedOn(i) ==
  [k \in 1..recorded[i] |-> [eventName |-> "course.event", eventId |-> k]]

\* C1: immediately after create returns, the new aggregate has exactly one
\* pending domain event (the "course created" event).
C1_CreateLeavesOneEvent ==
  (last.op = "create") => (Len(courses[last.idx].domainEvents) = 1)

\* C2: (every aggregate rehydrated) an aggregate returned by fromPrimitives
\* has no pending domain event, and no fromPrimitives call, however often
\* repeated on the same record, adds an event to any aggregate: what an
\* aggregate holds or has handed out was recorded by a later recordEvent call.
C2_FromPrimitivesRecordsNoEvent ==
  /\ [](\A i \in Instances :
          Len(pulled[i]) + Len(courses[i].domainEvents) = recorded[i])
  /\ [][(last'.op = "fromPrimitives") =>
          /\ \A i \in Instances :
               courses'[i].domainEvents = courses[i].domainEvents
          /\ (last'.idx > 0) => (courses'[last'.idx].domainEvents = <<>>)]_vars

C2_Witness ==
  /\ Len(courses) = 2
  /\ built[1] = built[2]
  /\ last.op = "pullEvents"
  /\ last.idx = 2
  /\ last.ret = << <<>> >>
  /\ recorded = <<0, 0>>

\* C3: (every aggregate rehydrated) for every valid plain record r,
\* fromPrimitives(r).toPrimitives() returns r field for field.
C3_FromPrimitivesRoundTrip ==
  (last.op = "toPrimitives") => (last.ret = << built[last.idx] >>)

C3_Witness ==
  /\ last.op = "toPrimitives"
  /\ built[last.idx].name = <<"a", " ">>
  /\ last.ret[1].name = <<"a", " ">>

\* C4: (every aggregate built by create) for every triple of value objects,
\* create(id, name, duration) serialises to
\* {id: id.value, name: name.value, duration: duration.value}.
C4_CreateSerialises ==
  (last.op = "toPrimitives") =>
    /\ DOMAIN last.ret[1] = {"id", "name", "duration"}
    /\ last.ret[1].id = built[last.idx].id
    /\ last.ret[1].name = built[last.idx].name
    /\ last.ret[1].duration = built[last.idx].duration

C4_Witness ==
  /\ last.op = "toPrimitives"
  /\ last.ret[1] = [id |-> <<"c", "1">>, name |-> <<"b">>, duration |-> <<"4", "w">>]

\* C5: pullEvents returns the whole pending list in recording order and
\* empties it: the events returned so far followed by the events still
\* pending are exactly the events recorded, each once and in order; after a
\* pullEvents nothing is pending; and a pullEvents directly after a
\* pullEvents on the same aggregate returns the empty list.
C5_PullReturnsAllAndClears ==
  /\ [](\A i \in Instances :
          pulled[i] \o courses[i].domainEvents = EventsRecordedOn(i))
  /\ []((last.op = "pullEvents") =>
          /\ courses[last.idx].domainEvents = <<>>
          /\ pulled[last.idx] = EventsRecordedOn(last.idx))
  /\ [][(last.op = "pullEvents" /\ last'.op = "pullEvents" /\ last'.idx = last.idx)
          => (last'.ret = << <<>> >>)]_vars

C5_Witness ==
  /\ last.op = "pullEvents"
  /\ Len(last.ret[1]) = 2
  /\ last.ret[1][1].eventId = 1
  /\ last.ret[1][2].eventId = 2

\* C6: when a value object rejects one of the record's fields, fromPrimitives
\* fails with a ValidationError and builds no aggregate; no aggregate exists
\* with a field its value object would reject.
C6_InvalidRecordYieldsNoAggregate ==
  /\ [](\A i \in Instances : ~Rejected(PrimitivesOf(courses[i])))
  /\ [][(last'.op = "fromPrimitives" /\ last'.rejected) =>
          /\ last'.idx = 0
          /\ IsValidationError(last'.ret[1])
          /\ last'.ret[1].error = "ValidationError"
          /\ courses' = courses]_vars

C6_Witness ==
  /\ last.op = "fromPrimitives"
  /\ last.idx = 0
  /\ last.ret = << ValidationError("name") >>
  /\ Len(courses) = 1

\* C7: toPrimitives always returns a record, changes neither the fields nor
\* the pending events of any aggregate, and returns the same record when
\* called twice in a row.
C7_ToPrimitivesPure ==
  /\ [](\A i \in Instances : ENABLED ToPrimitives(i))
  /\ [][(last'.op = "toPrimitives") =>
          /\ courses' = courses
          /\ DOMAIN last'.ret[1] = {"id", "name", "duration"}
          /\ (last.op = "toPrimitives" /\ last.idx = last'.idx) =>
               (last'.ret = last.ret)]_vars

C7_Witness ==
  /\ last.op = "toPrimitives"
  /\ courses[last.idx].domainEvents # <<>>

\* C8: the id, name and duration of an aggregate are those given at
\* construction, whatever calls follow.
C8_FieldsImmutable ==
  /\ [](\A i \in Instances : PrimitivesOf(courses[i]) = built[i])
  /\ [][\A i \in Instances :
          /\ courses'[i].id = courses[i].id
          /\ courses'[i].name = courses[i].name
          /\ courses'[i].duration = courses[i].duration]_vars

C8_Witness ==
  /\ last.op = "toPrimitives"
  /\ recorded[last.idx] = 2
  /\ Len(pulled[last.idx]) = 1
  /\ PrimitivesOf(courses[last.idx]) = built[last.idx]

C10_EventListsPerInstance ==
  [][\A j \in Instances :
       (j # last'.idx) => (courses'[j].domainEvents = courses[j].domainEvents)]_vars

C10_Witness ==
  /\ Len(courses) = 2
  /\ built[1].id = built[2].id
  /\ last.op = "pullEvents"
  /\ last.idx = 2
  /\ Len(last.ret[1]) = 1
  /\ Len(courses[1].domainEvents) = 1

====
